---- MODULE Spec2Model ----
(***************************************************************************)
(* Restaurant recommendation pipeline.                                     *)
(*                                                                         *)
(* Two programs are modelled:                                              *)
(*   "script"  src/Recommend_v1.py, one module-level try/except/finally;   *)
(*   "flow"    src/flow/flow_recommend.py recommend_pipeline, which calls  *)
(*             the functions of src/recommend/recommendation_v1.py.        *)
(*                                                                         *)
(* Function bodies are modelled as written.  recommend_pipeline is         *)
(* modelled from its entry; the retries Prefect is configured with         *)
(* execute the same task body again and are not separate code.             *)
(*                                                                         *)
(* Numbers: TF-IDF weights and cosine scores are floats in the code; here  *)
(* they are fixed-point integers (idf in hundredths, score in hundredths). *)
(***************************************************************************)
EXTENDS Integers, Sequences, FiniteSets, TLC

\* k, the number of recommendations per user.
K == 5

\* ---- bounds of the model ----
\* restaurants in the source tables
MaxR == 6
\* tag rows handed to the aggregator on its own
MaxRows == 4
\* triples in a list handed to the write on its own
MaxRecs == 2
\* rows per user already stored before a run
MaxOld == 1
\* restaurants sharing one score in a drawn similarity row
MaxTie == 3

UserIds == {1, 2}
TableNames == {"recommendation", "recommendations"}

\* ------------------------------------------------------------------------
\* Sequences helpers
\* ------------------------------------------------------------------------
RECURSIVE SortedSeq(_)
\* The elements of a finite set of integers in ascending order.
SortedSeq(S) ==
  IF S = {} THEN <<>>
  ELSE LET m == CHOOSE x \in S : \A y \in S : x <= y
       IN  <<m>> \o SortedSeq(S \ {m})

RECURSIVE Flatten(_)
Flatten(ss) == IF ss = <<>> THEN <<>> ELSE Head(ss) \o Flatten(Tail(ss))

RECURSIVE SumSeq(_)
SumSeq(s) == IF s = <<>> THEN 0 ELSE Head(s) + SumSeq(Tail(s))

Range(s) == {s[i] : i \in DOMAIN s}

\* ------------------------------------------------------------------------
\* ProfileAggregator: groupby(id)["tag_name"].apply(join).reset_index()
\* ------------------------------------------------------------------------
\* A tag row is [id |-> entity id, tag |-> tag name]; the other columns of
\* the query are not read by any stage.

\* delimiter.join(tags): the text as a sequence of words and separator
\* characters, the delimiter's characters between consecutive tags.
RECURSIVE Join(_, _)
Join(tags, delim) ==
  IF tags = <<>> THEN <<>>
  ELSE IF Len(tags) = 1 THEN <<tags[1]>>
  ELSE <<tags[1]>> \o delim \o Join(Tail(tags), delim)

\* ' | ' and " " as character sequences.
BarDelim == <<" ", "|", " ">>
SpaceDelim == <<" ">>

\* The tag names of one group, in row order.
GroupTags(rows, id) ==
  LET sel == SelectSeq(rows, LAMBDA r : r.id = id)
  IN  [i \in DOMAIN sel |-> sel[i].tag]

\* pandas groupby sorts the group keys (sort=True is the default), so the
\* profiles come out in ascending id order.
GroupKeys(rows) == SortedSeq({rows[i].id : i \in DOMAIN rows})

\* A mutant: the group keeps only its first tag.
GroupByJoinFirstOnly(rows, delim) ==
  LET keys == GroupKeys(rows)
  IN  [i \in DOMAIN keys |->
         [id |-> keys[i], text |-> <<GroupTags(rows, keys[i])[1]>>]]

GroupByJoin(rows, delim) ==
  LET keys == GroupKeys(rows)
  IN  [i \in DOMAIN keys |->
         [id |-> keys[i], text |-> Join(GroupTags(rows, keys[i]), delim)]]

\* The delimiter each program uses for each entity kind.
Delimiter(prog, kind) ==
  IF prog = "script" /\ kind = "users" THEN SpaceDelim ELSE BarDelim

\* ------------------------------------------------------------------------
\* TfidfVectorizer() with its defaults, and cosine_similarity
\* ------------------------------------------------------------------------
Separators == {" ", "|"}
\* Words the default token_pattern (two or more word characters) drops.
ShortWords == {"x"}
\* lowercase=True
Lower(w) == IF w = "BB" THEN "bb" ELSE w

\* The analyzer: lowercase, split at non-word characters, drop short words.
Analyze(text) ==
  SelectSeq([i \in DOMAIN text |-> Lower(text[i])],
            LAMBDA w : w \notin Separators /\ w \notin ShortWords)

\* fit: the vocabulary is every term of every document of the corpus.
FitVocabulary(corpus) ==
  UNION {Range(Analyze(corpus[i])) : i \in DOMAIN corpus}

Count(doc, t) == Cardinality({i \in DOMAIN doc : doc[i] = t})

DocFreq(corpus, t) ==
  Cardinality({i \in DOMAIN corpus : t \in Range(Analyze(corpus[i]))})

\* smooth idf, ln((1 + n) / (1 + df)) + 1, in hundredths, for n documents
\* (row) and document frequency df (column).
IdfTable ==
  << <<100>>,
     <<141, 100>>,
     <<169, 129, 100>>,
     <<192, 151, 122, 100>>,
     <<210, 169, 141, 118, 100>>,
     <<225, 185, 156, 134, 115, 100>>,
     <<239, 198, 169, 147, 129, 113, 100>>,
     <<250, 210, 181, 159, 141, 125, 112, 100>>,
     <<261, 220, 192, 169, 151, 136, 122, 111, 100>>,
     <<270, 230, 201, 179, 161, 145, 132, 120, 110, 100>>,
     <<279, 239, 210, 188, 169, 154, 141, 129, 118, 109, 100>>,
     <<287, 247, 218, 196, 177, 162, 149, 137, 126, 117, 108, 100>> >>

\* A mutant: the vectorizer is fit on the first text of the corpus only.
FitFirstOnly(corpus) ==
  LET vocab == Range(Analyze(corpus[1]))
  IN  [vocabulary |-> vocab,
       idf |-> [t \in vocab |-> IdfTable[1][1]]]

\* The fitted vectorizer: vocabulary and idf weight per term.
Fit(corpus) ==
  LET vocab == FitVocabulary(corpus)
  IN  [vocabulary |-> vocab,
       idf |-> [t \in vocab |-> IdfTable[Len(corpus)][DocFreq(corpus, t)]]]

\* transform: term count times idf for the terms of the fitted vocabulary;
\* terms outside it are ignored.  (The L2 normalisation is done in Cosine.)
Transform(vec, text) ==
  LET doc == Analyze(text)
  IN  [t \in vec.vocabulary |-> Count(doc, t) * vec.idf[t]]

RECURSIVE SumOver(_, _)
SumOver(S, f) ==
  IF S = {} THEN 0
  ELSE LET x == CHOOSE y \in S : TRUE IN f[x] + SumOver(S \ {x}, f)

Dot(v, w) == SumOver(DOMAIN v, [t \in DOMAIN v |-> v[t] * w[t]])

RECURSIVE IsqrtIn(_, _, _)
\* The integer square root of n, by bisection on lo..hi.
IsqrtIn(n, lo, hi) ==
  IF lo >= hi THEN lo
  ELSE LET mid == (lo + hi + 1) \div 2
       IN  IF mid * mid <= n THEN IsqrtIn(n, mid, hi) ELSE IsqrtIn(n, lo, mid - 1)

Isqrt(n) == IsqrtIn(n, 0, 40000)

\* cosine_similarity of two weight vectors, in hundredths: the dot product
\* over the product of the norms; a zero vector is similar to nothing (0).
Cosine(v, w) ==
  LET a == Dot(v, v)
      b == Dot(w, w)
      c == (100 * Dot(v, w)) \div (Isqrt(a) * Isqrt(b))
  IN  IF a = 0 \/ b = 0 THEN 0 ELSE IF c > 100 THEN 100 ELSE c

\* The dense users x restaurants matrix, rows and columns in profile order.
SimilarityMatrix(vec, userProfiles, restaurantProfiles) ==
  [u \in DOMAIN userProfiles |->
     [r \in DOMAIN restaurantProfiles |->
        Cosine(Transform(vec, userProfiles[u].text),
               Transform(vec, restaurantProfiles[r].text))]]

\* ------------------------------------------------------------------------
\* TopKSelector: np.argpartition(-row, k)[:k], then np.argsort
\* ------------------------------------------------------------------------
\* numpy leaves the order among equal keys unspecified for both calls, so
\* each is the set of results its contract allows.  Positions are 1-based
\* here; numpy's kth = k is position k + 1.

\* np.argpartition raises ValueError when kth is out of bounds.
KthOutOfBounds(row, k) == k >= Len(row)

\* A mutant: the partition is taken of row instead of -row, selecting the
\* k lowest scores.
ArgpartitionPrefixLowest(row, k) ==
  {S \in SUBSET DOMAIN row :
     /\ Cardinality(S) = k
     /\ \E piv \in DOMAIN row \ S :
          /\ \A i \in S : row[i] <= row[piv]
          /\ \A j \in DOMAIN row \ S : row[j] >= row[piv]}

\* np.argpartition(-row, k)[:k], as the set of positions it returns: the
\* first k entries of a permutation in which the entry at position k + 1
\* (the pivot) is where a full sort would put it, nothing before it has a
\* larger key and nothing after it a smaller key, the key being -score.
\* The order of the k entries is unspecified.
ArgpartitionPrefix(row, k) ==
  {S \in SUBSET DOMAIN row :
     /\ Cardinality(S) = k
     /\ \E piv \in DOMAIN row \ S :
          /\ \A i \in S : -row[i] <= -row[piv]
          /\ \A j \in DOMAIN row \ S : -row[j] >= -row[piv]}

\* top_k_idx[np.argsort(-row[top_k_idx])] for the positions S in any order:
\* the arrangements of S with keys -score ascending.  argsort's default
\* kind is not stable, so equal keys come out in any order.
ArgsortOrders(row, S) ==
  LET base == SortedSeq(S)
  IN  {[i \in DOMAIN base |-> f[base[i]]] :
         f \in {g \in Permutations(S) :
                  \A i \in DOMAIN base :
                     i + 1 \in DOMAIN base => -row[g[base[i]]] <= -row[g[base[i + 1]]]}}

\* top_k_sorted, for every result the two calls may give.
TopKSorted(row, k) ==
  UNION {ArgsortOrders(row, S) : S \in ArgpartitionPrefix(row, k)}

\* ------------------------------------------------------------------------
\* State
\* ------------------------------------------------------------------------
VARIABLES
  program,              \* "script" or "flow"
  pc,                   \* the statement the run is at
  source,               \* what the two tag queries return, fixed for a run
  connection,           \* "unbound", "open" or "closed"
  fetched,              \* the entity kinds whose fetchall has returned
  df_restaurants,       \* fetched restaurant tag rows
  df_users,             \* fetched user tag rows
  aggregated,           \* whether the profiles have been built
  restaurant_profiles,  \* restaurant_metrics in the script
  user_profiles,        \* user_metrics in the script
  vectorizer,           \* the TfidfVectorizer: vocabulary and idf
  similarity,           \* the users x restaurants matrix
  user_idx,             \* position of the top-k loop
  recommendations,      \* the list of (user_id, restaurant_id, score)
  db,                   \* the committed store: the two tables and the view
  tx,                   \* the store as the open connection sees it
  nextId,               \* the serial id of the next inserted row
  err,                  \* the last exception raised in the run, or "none"
  outcome,              \* what the caller sees: "running", "completed", "failed"
  executed,             \* statements the run has executed on the store
  rolled_back,          \* whether the run has called rollback()
  db0,                  \* the committed store when the run started
  nextId0,              \* nextId when the run started
  run,                  \* which execution on this input this is
  first                 \* the list the first execution produced

vars == <<program, pc, source, connection, fetched, df_restaurants, df_users,
          aggregated, restaurant_profiles, user_profiles, vectorizer,
          similarity, user_idx, recommendations, db, tx, nextId, err, outcome,
          executed, rolled_back, db0, nextId0, run, first>>

locals == <<fetched, df_restaurants, df_users, aggregated, restaurant_profiles,
            user_profiles, vectorizer, similarity, user_idx, recommendations>>

history == <<db0, nextId0, run, first>>

\* The table each program's DELETE and INSERT name.
WriteTable(prog) == IF prog = "script" THEN "recommendation" ELSE "recommendations"

\* The table the view's SELECT names, in both programs.
ViewTable == "recommendation"

\* The table task_write_DB counts before it calls write_DB.
CountTable == "recommendation"

Unfitted == [vocabulary |-> {}, idf |-> <<>>]

\* Where control goes when a statement raises: the script's except clause,
\* or the flow's (through the task's own log-and-raise).
Handler(prog) == IF prog = "script" THEN "except" ELSE "flow_except"

\* ------------------------------------------------------------------------
\* Stages before the write
\* ------------------------------------------------------------------------
\* load_dotenv and os.getenv; reading the file may raise.
LoadEnv ==
  /\ pc = "load_env"
  /\ \E ok \in BOOLEAN :
       IF ok
       THEN /\ pc' = (IF program = "script" THEN "connect" ELSE "task_fetch_data")
            /\ err' = err
       ELSE /\ pc' = Handler(program)
            /\ err' = "OSError"
  /\ UNCHANGED <<program, source, connection, locals, db, tx, nextId, outcome,
                 executed, rolled_back, history>>

\* Script: psycopg2.connect and connection.cursor().
Connect ==
  /\ pc = "connect"
  /\ program = "script"
  /\ \E ok \in BOOLEAN :
       IF ok
       THEN /\ connection' = "open"
            /\ tx' = db
            /\ pc' = "fetch_restaurants"
            /\ err' = err
       ELSE /\ pc' = "except"
            /\ err' = "OperationalError"
            /\ UNCHANGED <<connection, tx>>
  /\ UNCHANGED <<program, source, locals, db, nextId, outcome, executed,
                 rolled_back, history>>

\* A mutant: the check of the fetched rows is missing.
NoRowsNever(rows) == FALSE

\* len(records) == 0 in the script, df.empty in task_fetch_data.
NoRows(rows) == Len(rows) = 0

\* Script: the restaurant query, fetchall and the empty check.
FetchRestaurants ==
  /\ pc = "fetch_restaurants"
  /\ program = "script"
  /\ \E ok \in BOOLEAN :
       IF ~ok
       THEN /\ pc' = "except"
            /\ err' = "DatabaseError"
            /\ UNCHANGED <<fetched, df_restaurants>>
       ELSE /\ fetched' = fetched \cup {"restaurants"}
            /\ df_restaurants' = source.restaurants
            /\ IF NoRows(source.restaurants)
               THEN pc' = "except" /\ err' = "ValueError"
               ELSE pc' = "fetch_users" /\ err' = err
  /\ UNCHANGED <<program, source, connection, df_users, aggregated,
                 restaurant_profiles, user_profiles, vectorizer, similarity,
                 user_idx, recommendations, db, tx, nextId, outcome, executed,
                 rolled_back, history>>

\* Script: the user query, fetchall and the empty check.
FetchUsers ==
  /\ pc = "fetch_users"
  /\ program = "script"
  /\ \E ok \in BOOLEAN :
       IF ~ok
       THEN /\ pc' = "except"
            /\ err' = "DatabaseError"
            /\ UNCHANGED <<fetched, df_users>>
       ELSE /\ fetched' = fetched \cup {"users"}
            /\ df_users' = source.users
            /\ IF NoRows(source.users)
               THEN pc' = "except" /\ err' = "ValueError"
               ELSE pc' = "profiles" /\ err' = err
  /\ UNCHANGED <<program, source, connection, df_restaurants, aggregated,
                 restaurant_profiles, user_profiles, vectorizer, similarity,
                 user_idx, recommendations, db, tx, nextId, outcome, executed,
                 rolled_back, history>>

\* Flow: connect_db, fetch_datas (both queries), con.close() and the
\* empty check of the task.
TaskFetchData ==
  /\ pc = "task_fetch_data"
  /\ program = "flow"
  /\ \E step \in {"connect", "fetch", "ok"} :
       CASE step = "connect" ->
              /\ pc' = "flow_except"
              /\ err' = "OperationalError"
              /\ UNCHANGED <<connection, fetched, df_restaurants, df_users>>
         [] step = "fetch" ->
              /\ pc' = "flow_except"
              /\ err' = "DatabaseError"
              /\ connection' = "open"
              /\ UNCHANGED <<fetched, df_restaurants, df_users>>
         [] OTHER ->
              /\ connection' = "closed"
              /\ fetched' = {"restaurants", "users"}
              /\ df_restaurants' = source.restaurants
              /\ df_users' = source.users
              /\ IF NoRows(source.restaurants) \/ NoRows(source.users)
                 THEN pc' = "flow_except" /\ err' = "ValueError"
                 ELSE pc' = "profiles" /\ err' = err
  /\ UNCHANGED <<program, source, aggregated, restaurant_profiles,
                 user_profiles, vectorizer, similarity, user_idx,
                 recommendations, db, tx, nextId, outcome, executed,
                 rolled_back, history>>

\* df_restaurants.empty or df_users.empty
ProfilesInputEmpty(rs, us) == Len(rs) = 0 \/ Len(us) = 0

\* The profiles of both kinds (script: after its guard on the frames;
\* flow: preprocess_data), then the guard on empty profiles (script: at
\* the head of the TF-IDF block; flow: in task_preprocess).
Profiles ==
  /\ pc = "profiles"
  /\ IF program = "script" /\ ProfilesInputEmpty(df_restaurants, df_users)
     THEN /\ pc' = "except"
          /\ err' = "ValueError"
          /\ UNCHANGED <<aggregated, restaurant_profiles, user_profiles>>
     ELSE LET rp == GroupByJoin(df_restaurants, Delimiter(program, "restaurants"))
              up == GroupByJoin(df_users, Delimiter(program, "users"))
          IN  /\ aggregated' = TRUE
              /\ restaurant_profiles' = rp
              /\ user_profiles' = up
              /\ IF Len(rp) = 0 \/ Len(up) = 0
                 THEN pc' = Handler(program) /\ err' = "ValueError"
                 ELSE pc' = "vectorize" /\ err' = err
  /\ UNCHANGED <<program, source, connection, fetched, df_restaurants,
                 df_users, vectorizer, similarity, user_idx, recommendations,
                 db, tx, nextId, outcome, executed, rolled_back, history>>

\* fit on the concatenation of user and restaurant texts, transform of
\* both, cosine_similarity.  fit raises ValueError on an empty vocabulary.
Vectorize ==
  /\ pc = "vectorize"
  /\ LET corpus == [i \in DOMAIN user_profiles |-> user_profiles[i].text]
                   \o [i \in DOMAIN restaurant_profiles |-> restaurant_profiles[i].text]
         vec == Fit(corpus)
     IN  IF vec.vocabulary = {}
         THEN /\ pc' = Handler(program)
              /\ err' = "ValueError"
              /\ UNCHANGED <<vectorizer, similarity>>
         ELSE /\ vectorizer' = vec
              /\ similarity' = SimilarityMatrix(vec, user_profiles, restaurant_profiles)
              /\ pc' = "topk"
              /\ err' = err
  /\ UNCHANGED <<program, source, connection, fetched, df_restaurants,
                 df_users, aggregated, restaurant_profiles, user_profiles,
                 user_idx, recommendations, db, tx, nextId, outcome, executed,
                 rolled_back, history>>

\* The triples of one user, in the order of top_k_sorted.
UserTriples(u, order) ==
  [i \in DOMAIN order |->
     [user_id |-> user_profiles[u].id,
      restaurant_id |-> restaurant_profiles[order[i]].id,
      score |-> similarity[u][order[i]]]]

\* One iteration of the loop over users; after the last user the list is
\* complete.  In the script k = 5; in compute_similarity k is not bound
\* anywhere, so the first iteration raises NameError.
TopK ==
  /\ pc = "topk"
  /\ IF user_idx > Len(user_profiles)
     THEN /\ pc' = (IF program = "script" THEN "delete" ELSE "task_write_DB")
          /\ UNCHANGED <<err, user_idx, recommendations>>
     ELSE IF program = "flow"
     THEN /\ pc' = "flow_except"
          /\ err' = "NameError"
          /\ UNCHANGED <<user_idx, recommendations>>
     ELSE IF KthOutOfBounds(similarity[user_idx], K)
     THEN /\ pc' = "except"
          /\ err' = "ValueError"
          /\ UNCHANGED <<user_idx, recommendations>>
     ELSE \E order \in TopKSorted(similarity[user_idx], K) :
            /\ recommendations' = recommendations \o UserTriples(user_idx, order)
            /\ user_idx' = user_idx + 1
            /\ UNCHANGED <<pc, err>>
  /\ UNCHANGED <<program, source, connection, fetched, df_restaurants,
                 df_users, aggregated, restaurant_profiles, user_profiles,
                 vectorizer, similarity, db, tx, nextId, outcome, executed,
                 rolled_back, history>>

\* ------------------------------------------------------------------------
\* The write: DELETE, commit, INSERT, (view,) commit
\* ------------------------------------------------------------------------
\* df_recommendations["user_id"].unique()
TouchedUsers(recs) == {recs[i].user_id : i \in DOMAIN recs}

\* A mutant: DELETE without its WHERE clause.
DeleteWhereAll(rows, user_ids) == {}

\* DELETE FROM t WHERE user_id = ANY(user_ids)
DeleteWhere(rows, user_ids) == {r \in rows : r.user_id \notin user_ids}

\* A mutant: the DELETE removes nothing.
DeleteStatementNoop(store, table, recs) == store

\* The store after the DELETE on the program's table.
DeleteStatement(store, table, recs) ==
  [store EXCEPT ![table] = DeleteWhere(store[table], TouchedUsers(recs))]

\* INSERT INTO t (user_id, restaurant_id, score) VALUES ...: one new row
\* per triple, ids from the table's serial in list order.
InsertedRows(recs, id) ==
  {[id |-> id + i - 1, user_id |-> recs[i].user_id,
    restaurant_id |-> recs[i].restaurant_id, score |-> recs[i].score] :
     i \in DOMAIN recs}

\* What a raising statement of the write does besides raising: write_DB's
\* except clause rolls back before it re-raises; the script's rollback is
\* in its module-level except clause.
WriteRaises(e) ==
  /\ err' = e
  /\ pc' = Handler(program)
  /\ tx' = (IF program = "flow" THEN db ELSE tx)
  /\ rolled_back' = (IF program = "flow" THEN TRUE ELSE rolled_back)

\* Flow: task_write_DB up to its call of write_DB: connect_db and the
\* count of the rows of table recommendation.
TaskWriteDB ==
  /\ pc = "task_write_DB"
  /\ program = "flow"
  /\ \E step \in {"connect", "count", "ok"} :
       CASE step = "connect" ->
              /\ pc' = "flow_except"
              /\ err' = "OperationalError"
              /\ UNCHANGED <<connection, tx>>
         [] step = "count" ->
              /\ pc' = "flow_except"
              /\ err' = "DatabaseError"
              /\ connection' = "open"
              /\ tx' = db
         [] OTHER ->
              /\ pc' = "delete"
              /\ err' = err
              /\ connection' = "open"
              /\ tx' = db
  /\ UNCHANGED <<program, source, locals, db, nextId, outcome, executed,
                 rolled_back, history>>

\* The DELETE of the touched users' rows.  The script first raises
\* ValueError when the list is empty.
Delete ==
  /\ pc = "delete"
  /\ IF program = "script" /\ Len(recommendations) = 0
     THEN /\ pc' = "except"
          /\ err' = "ValueError"
          /\ UNCHANGED <<tx, executed, rolled_back>>
     ELSE \E ok \in BOOLEAN :
            IF ok
            THEN /\ tx' = DeleteStatement(tx, WriteTable(program), recommendations)
                 /\ executed' = executed \cup {"DELETE"}
                 /\ pc' = "commit_delete"
                 /\ UNCHANGED <<err, rolled_back>>
            ELSE /\ WriteRaises("DatabaseError")
                 /\ UNCHANGED executed
  /\ UNCHANGED <<program, source, connection, locals, db, nextId, outcome,
                 history>>

\* con.commit() right after the DELETE: the deletion is durable from here.
CommitAfterDelete(committed, session) == session

CommitDelete ==
  /\ pc = "commit_delete"
  /\ \E ok \in BOOLEAN :
       IF ok
       THEN /\ db' = CommitAfterDelete(db, tx)
            /\ executed' = executed \cup {"COMMIT_DELETE"}
            /\ pc' = "insert"
            /\ UNCHANGED <<tx, err, rolled_back>>
       ELSE /\ WriteRaises("DatabaseError")
            /\ UNCHANGED <<db, executed>>
  /\ UNCHANGED <<program, source, connection, locals, nextId, outcome, history>>

\* execute_values(cursor, INSERT ..., df_recommendations.values.tolist())
Insert ==
  /\ pc = "insert"
  /\ \E ok \in BOOLEAN :
       IF ok
       THEN /\ tx' = [tx EXCEPT ![WriteTable(program)] =
                        @ \cup InsertedRows(recommendations, nextId)]
            /\ nextId' = nextId + Len(recommendations)
            /\ executed' = executed \cup {"INSERT"}
            /\ pc' = (IF program = "script" THEN "view" ELSE "commit")
            /\ UNCHANGED <<err, rolled_back>>
       ELSE /\ WriteRaises("DatabaseError")
            /\ UNCHANGED <<nextId, executed>>
  /\ UNCHANGED <<program, source, connection, locals, db, outcome, history>>

\* Script: CREATE OR REPLACE VIEW recommendation_view, in the transaction
\* of the INSERT.
CreateView ==
  /\ pc = "view"
  /\ program = "script"
  /\ \E ok \in BOOLEAN :
       IF ok
       THEN /\ tx' = [tx EXCEPT !.recommendation_view = ViewTable]
            /\ executed' = executed \cup {"VIEW"}
            /\ pc' = "commit"
            /\ UNCHANGED <<err, rolled_back>>
       ELSE /\ WriteRaises("DatabaseError")
            /\ UNCHANGED executed
  /\ UNCHANGED <<program, source, connection, locals, db, nextId, outcome,
                 history>>

\* The last commit of the write.  write_DB returns to task_write_DB, which
\* closes the connection; the script goes on to its finally clause.
Commit ==
  /\ pc = "commit"
  /\ \E ok \in BOOLEAN :
       IF ok
       THEN /\ db' = tx
            /\ executed' = executed \cup {"COMMIT"}
            /\ pc' = (IF program = "script" THEN "finally" ELSE "task_create_view")
            /\ connection' = (IF program = "script" THEN connection ELSE "closed")
            /\ UNCHANGED <<tx, err, rolled_back>>
       ELSE /\ WriteRaises("DatabaseError")
            /\ UNCHANGED <<db, executed, connection>>
  /\ UNCHANGED <<program, source, locals, nextId, outcome, history>>

\* Flow: task_create_view and create_view: connect, CREATE OR REPLACE VIEW,
\* commit, cursor.close().
TaskCreateView ==
  /\ pc = "task_create_view"
  /\ program = "flow"
  /\ \E step \in {"connect", "statement", "ok"} :
       CASE step = "connect" ->
              /\ pc' = "flow_except"
              /\ err' = "OperationalError"
              /\ UNCHANGED <<connection, db, tx, executed>>
         [] step = "statement" ->
              /\ pc' = "flow_except"
              /\ err' = "DatabaseError"
              /\ connection' = "open"
              /\ UNCHANGED <<db, tx, executed>>
         [] OTHER ->
              /\ pc' = "return"
              /\ err' = err
              /\ connection' = "open"
              /\ db' = [db EXCEPT !.recommendation_view = ViewTable]
              /\ tx' = db'
              /\ executed' = executed \cup {"VIEW"}
  /\ UNCHANGED <<program, source, locals, nextId, outcome, rolled_back, history>>

\* ------------------------------------------------------------------------
\* How a run ends
\* ------------------------------------------------------------------------
\* Whether the script's except clause ends without an exception: it does
\* whenever the name connection is bound (print, rollback, no raise).  With
\* connection unbound, its own "if connection:" raises NameError.
Swallowed(conn) == conn # "unbound"

\* Script: except Exception as e.
Except ==
  /\ pc = "except"
  /\ program = "script"
  /\ IF connection = "unbound"
     THEN /\ err' = "NameError"
          /\ UNCHANGED <<tx, rolled_back>>
     ELSE /\ tx' = db
          /\ rolled_back' = TRUE
          /\ UNCHANGED err
  /\ pc' = (IF Swallowed(connection) THEN "finally" ELSE "finally_raising")
  /\ UNCHANGED <<program, source, connection, locals, db, nextId, outcome,
                 executed, history>>

\* Script: finally.  With connection unbound "if connection:" raises
\* NameError; otherwise cursor and connection are closed, and the process
\* ends normally unless an exception is still propagating.
Finally ==
  /\ pc \in {"finally", "finally_raising"}
  /\ program = "script"
  /\ IF connection = "unbound"
     THEN /\ err' = "NameError"
          /\ outcome' = "failed"
          /\ UNCHANGED <<connection, tx>>
     ELSE /\ connection' = "closed"
          /\ tx' = db
          /\ outcome' = (IF pc = "finally_raising" THEN "failed" ELSE "completed")
          /\ UNCHANGED err
  /\ pc' = "exit"
  /\ UNCHANGED <<program, source, locals, db, nextId, executed, rolled_back,
                 history>>

\* Flow: the task's and recommend_pipeline's except clauses log and
\* re-raise: the flow run fails.
FlowExcept ==
  /\ pc = "flow_except"
  /\ program = "flow"
  /\ pc' = "exit"
  /\ outcome' = "failed"
  /\ UNCHANGED <<program, source, connection, locals, db, tx, nextId, err,
                 executed, rolled_back, history>>

\* Flow: recommend_pipeline returns its status dictionary.
FlowReturn ==
  /\ pc = "return"
  /\ program = "flow"
  /\ pc' = "exit"
  /\ outcome' = "completed"
  /\ UNCHANGED <<program, source, connection, locals, db, tx, nextId, err,
                 executed, rolled_back, history>>

\* The script is executed again on the same query results: the stages up
\* to the similarity matrix are functions of them, so the run resumes at
\* the loop with an empty list.
RunAgain ==
  /\ pc = "delete"
  /\ program = "script"
  /\ run = 1
  /\ run' = 2
  /\ first' = recommendations
  /\ recommendations' = <<>>
  /\ user_idx' = 1
  /\ pc' = "topk"
  /\ UNCHANGED <<program, source, connection, fetched, df_restaurants,
                 df_users, aggregated, restaurant_profiles, user_profiles,
                 vectorizer, similarity, db, tx, nextId, err, outcome,
                 executed, rolled_back, db0, nextId0>>

\* ------------------------------------------------------------------------
\* Initial states
\* ------------------------------------------------------------------------
\* The restaurants of the source tables, in the order the query returns
\* them: the first n of this catalog.
RestaurantCatalog ==
  << [id |-> 13, tags |-> <<"x">>],
     [id |-> 11, tags |-> <<"aa">>],
     [id |-> 12, tags |-> <<"BB">>],
     [id |-> 16, tags |-> <<"aa", "bb">>],
     [id |-> 14, tags |-> <<"aa", "cc">>],
     [id |-> 15, tags |-> <<"cc">>],
     [id |-> 18, tags |-> <<"bb", "cc">>],
     [id |-> 17, tags |-> <<"aa">>] >>

RestaurantRows(n) ==
  Flatten([i \in 1..n |->
             [j \in DOMAIN RestaurantCatalog[i].tags |->
                [id |-> RestaurantCatalog[i].id, tag |-> RestaurantCatalog[i].tags[j]]]])

\* The user tag rows the query may return.
UserSources ==
  { <<>>,
    <<[id |-> 1, tag |-> "aa"]>>,
    <<[id |-> 1, tag |-> "x"]>>,
    <<[id |-> 2, tag |-> "bb"], [id |-> 1, tag |-> "aa"], [id |-> 2, tag |-> "aa"]>>,
    <<[id |-> 2, tag |-> "cc"], [id |-> 1, tag |-> "aa"], [id |-> 1, tag |-> "bb"]>> }

\* Query results of a small catalogue: users 1 (vegan, cheap) and 2 (spicy);
\* restaurants 1 (vegan, cheap), 2 (spicy, cheap) and 3 (luxury).
ScenarioSource ==
  [restaurants |-> << [id |-> 1, tag |-> "vegan"], [id |-> 1, tag |-> "cheap"],
                      [id |-> 2, tag |-> "spicy"], [id |-> 2, tag |-> "cheap"],
                      [id |-> 3, tag |-> "luxury"] >>,
   users |-> << [id |-> 1, tag |-> "vegan"], [id |-> 1, tag |-> "cheap"],
                [id |-> 2, tag |-> "spicy"] >>]

\* Rows stored by earlier runs: count[u] rows for user u.
OldRows(count) ==
  UNION {{[id |-> (u - 1) * MaxOld + j, user_id |-> u,
           restaurant_id |-> 10 + j, score |-> 30] : j \in 1..count[u]} :
           u \in UserIds}

Stores ==
  {[recommendation |-> OldRows(c), recommendations |-> OldRows(c),
    recommendation_view |-> "none"] : c \in [UserIds -> 0..MaxOld]}

\* The store in which every user has MaxOld rows.
FullStore ==
  [recommendation |-> OldRows([u \in UserIds |-> MaxOld]),
   recommendations |-> OldRows([u \in UserIds |-> MaxOld]),
   recommendation_view |-> "none"]

FirstFreeId == MaxOld * Cardinality(UserIds) + 1

\* What every run starts from, whatever its inputs.
InitCommon ==
  /\ program \in {"script", "flow"}
  /\ tx = db
  /\ db0 = db
  /\ nextId = FirstFreeId
  /\ nextId0 = nextId
  /\ err = "none"
  /\ outcome = "running"
  /\ executed = {}
  /\ rolled_back = FALSE
  /\ run = 1
  /\ first = <<>>
  /\ vectorizer = Unfitted
  /\ user_idx = 1

\* A run of either program from its first statement.
Init ==
  /\ db \in Stores
  /\ InitCommon
  /\ pc = "load_env"
  /\ source \in {[restaurants |-> RestaurantRows(n), users |-> us] :
                   n \in 0..MaxR, us \in UserSources} \cup {ScenarioSource}
  /\ connection = "unbound"
  /\ fetched = {}
  /\ df_restaurants = <<>>
  /\ df_users = <<>>
  /\ aggregated = FALSE
  /\ restaurant_profiles = <<>>
  /\ user_profiles = <<>>
  /\ similarity = <<>>
  /\ recommendations = <<>>

Next ==
  \/ LoadEnv
  \/ Connect
  \/ FetchRestaurants
  \/ FetchUsers
  \/ TaskFetchData
  \/ Profiles
  \/ Vectorize
  \/ TopK
  \/ Delete
  \/ CommitDelete
  \/ Insert
  \/ CreateView
  \/ Commit
  \/ Except
  \/ Finally
  \/ FlowExcept

Spec == Init /\ [][Next]_vars

\* ------------------------------------------------------------------------
\* The write on its own: the script's write block and write_DB (as
\* task_write_DB calls it) applied to a list of triples
\* ------------------------------------------------------------------------
RestaurantIds == {21, 22}
Scores == {0, 50}

Triples == [user_id : UserIds, restaurant_id : RestaurantIds, score : Scores]

RECURSIVE SeqsUpTo(_, _)
\* The sequences over S of length at most n.
SeqsUpTo(S, n) ==
  IF n = 0 THEN {<<>>}
  ELSE LET shorter == SeqsUpTo(S, n - 1)
       IN  shorter \cup {Append(q, x) : q \in {r \in shorter : Len(r) = n - 1}, x \in S}

InitWrite ==
  /\ db \in Stores
  /\ InitCommon
  /\ pc = (IF program = "script" THEN "delete" ELSE "task_write_DB")
  /\ source = [restaurants |-> <<>>, users |-> <<>>]
  /\ connection = (IF program = "script" THEN "open" ELSE "closed")
  /\ fetched = {"restaurants", "users"}
  /\ df_restaurants = <<>>
  /\ df_users = <<>>
  /\ aggregated = TRUE
  /\ restaurant_profiles = <<>>
  /\ user_profiles = <<>>
  /\ similarity = <<>>
  /\ recommendations \in SeqsUpTo(Triples, MaxRecs)

NextWrite ==
  \/ TaskWriteDB
  \/ Delete
  \/ CommitDelete
  \/ Insert
  \/ CreateView
  \/ Commit
  \/ TaskCreateView
  \/ FlowReturn
  \/ Except
  \/ Finally
  \/ FlowExcept

SpecWrite == InitWrite /\ [][NextWrite]_vars

\* ------------------------------------------------------------------------
\* The top-k loop on its own: one user's similarity row
\* ------------------------------------------------------------------------
ScoreLevels == {0, 50, 100}

\* The rows over n restaurants in which no score occurs more than MaxTie
\* times.
TieBoundedRows(n) ==
  {row \in [1..n -> ScoreLevels] :
     \A v \in ScoreLevels : Cardinality({i \in 1..n : row[i] = v}) <= MaxTie}

InitTopK ==
  /\ db = FullStore
  /\ InitCommon
  /\ pc = "topk"
  /\ source = [restaurants |-> <<>>, users |-> <<>>]
  /\ connection = (IF program = "script" THEN "open" ELSE "closed")
  /\ fetched = {"restaurants", "users"}
  /\ df_restaurants = <<>>
  /\ df_users = <<>>
  /\ aggregated = TRUE
  /\ \E n \in 1..MaxR :
       /\ restaurant_profiles = [i \in 1..n |-> [id |-> 10 + i, text |-> <<>>]]
       /\ \E row \in TieBoundedRows(n) : similarity = <<row>>
  /\ user_profiles = <<[id |-> 1, text |-> <<>>]>>
  /\ recommendations = <<>>

NextTopK == TopK

SpecTopK == InitTopK /\ [][NextTopK]_vars

\* The loop executed a second time on the same row.
NextTwice ==
  \/ TopK
  \/ RunAgain

SpecTwice == InitTopK /\ [][NextTwice]_vars

\* ------------------------------------------------------------------------
\* The aggregator on its own: the profiles of drawn tag rows
\* ------------------------------------------------------------------------
EntityIds == {1, 2, 3}
TagNames == {"aa", "bb"}
TagRows == [id : EntityIds, tag : TagNames]

InitAgg ==
  /\ db = FullStore
  /\ InitCommon
  /\ pc = "profiles"
  /\ source = [restaurants |-> <<>>, users |-> <<>>]
  /\ connection = (IF program = "script" THEN "open" ELSE "closed")
  /\ fetched = {"restaurants", "users"}
  /\ \E rs \in SeqsUpTo(TagRows, MaxRows - 1) \ {<<>>} :
       \E us \in SeqsUpTo(TagRows, MaxRows - Len(rs)) \ {<<>>} :
          df_restaurants = rs /\ df_users = us
  /\ aggregated = FALSE
  /\ restaurant_profiles = <<>>
  /\ user_profiles = <<>>
  /\ similarity = <<>>
  /\ recommendations = <<>>

NextAgg == Profiles

SpecAgg == InitAgg /\ [][NextAgg]_vars

\* ------------------------------------------------------------------------
\* Properties of the write (under SpecWrite)
\* ------------------------------------------------------------------------
\* The rows a table holds for user u.
RowsOf(rows, u) == {r \in rows : r.user_id = u}

\* C1: when a statement of the write fails after the DELETE of the touched
\* users' rows was issued and before the final commit, then after the
\* rollback every touched user's stored rows are exactly the rows the user
\* had before the run started.
C1_AllOrNothing ==
  (rolled_back /\ "DELETE" \in executed /\ "COMMIT" \notin executed) =>
     \A u \in TouchedUsers(recommendations) :
        /\ RowsOf(db[WriteTable(program)], u) = RowsOf(db0[WriteTable(program)], u)
        /\ RowsOf(tx[WriteTable(program)], u) = RowsOf(db0[WriteTable(program)], u)

\* C2: at every point of a write, successful or failing, the rows stored
\* for a user whose id does not occur in the list are the rows stored
\* before the write, in the committed store and in the open transaction.
C2_Isolation ==
  \A t \in TableNames :
     \A u \in UserIds \ TouchedUsers(recommendations) :
        /\ RowsOf(db[t], u) = RowsOf(db0[t], u)
        /\ RowsOf(tx[t], u) = RowsOf(db0[t], u)

\* A write has deleted a touched user's old row and inserted the list while
\* another user, not in the list, has a stored row.
C2_Witness ==
  /\ pc = "exit"
  /\ "INSERT" \in executed
  /\ \E u \in TouchedUsers(recommendations) : RowsOf(db0[WriteTable(program)], u) # {}
  /\ \E u \in UserIds \ TouchedUsers(recommendations) :
        RowsOf(db0[WriteTable(program)], u) # {}

\* C3: after a write whose last commit succeeded, the rows stored for every
\* touched user are exactly one new row per triple of the list for that
\* user; no row stored before the run remains and no new row reuses the id
\* of an old one.
C3_ReplaceExact ==
  "COMMIT" \in executed =>
     \A u \in TouchedUsers(recommendations) :
        /\ RowsOf(db[WriteTable(program)], u)
             = RowsOf(InsertedRows(recommendations, nextId0), u)
        /\ \A r \in RowsOf(db[WriteTable(program)], u) :
              \A o \in db0[WriteTable(program)] : r.id # o.id

\* A committed write for a user who had a stored row before the run.
C3_Witness ==
  /\ "COMMIT" \in executed
  /\ \E u \in TouchedUsers(recommendations) : RowsOf(db0[WriteTable(program)], u) # {}
  /\ Len(recommendations) = MaxRecs

\* ------------------------------------------------------------------------
\* Properties of the top-k loop (under SpecTopK; C4 under SpecTwice)
\* ------------------------------------------------------------------------
\* The triples of the list that belong to the user of profile u.
TriplesOf(u) ==
  SelectSeq(recommendations, LAMBDA t : t.user_id = user_profiles[u].id)

\* The score of restaurant id rid in the row of the user of profile u.
ScoreOf(u, rid) ==
  LET r == CHOOSE q \in DOMAIN restaurant_profiles : restaurant_profiles[q].id = rid
  IN  similarity[u][r]

Min(a, b) == IF a <= b THEN a ELSE b

\* C4: the second execution on the same input produces the list the first
\* execution produced: the same triples in the same order.
C4_Idempotent ==
  (run = 2 /\ pc = "delete") => recommendations = first

\* C5: the loop raises no error, and once it is over every user with a
\* profile has min(K, R) triples, R being the number of restaurant
\* profiles.
C5_TopKSize ==
  pc # "topk" =>
     /\ err = "none"
     /\ \A u \in DOMAIN user_profiles :
           Len(TriplesOf(u)) = Min(K, Len(restaurant_profiles))

\* C6: in the finished list each user's triples are contiguous, and of two
\* triples of one user the earlier has the strictly higher score, or the
\* same score and the lower restaurant_id.
C6_Ordering ==
  pc = "delete" =>
     /\ \A i, j, l \in DOMAIN recommendations :
           (i < j /\ j < l /\ recommendations[i].user_id = recommendations[l].user_id)
              => recommendations[j].user_id = recommendations[i].user_id
     /\ \A i, j \in DOMAIN recommendations :
           (i < j /\ recommendations[i].user_id = recommendations[j].user_id)
              => \/ recommendations[i].score > recommendations[j].score
                 \/ /\ recommendations[i].score = recommendations[j].score
                    /\ recommendations[i].restaurant_id < recommendations[j].restaurant_id

\* C7: with more than K restaurants, every user the loop has processed has
\* K triples of K different restaurants, each with the score of its cell of
\* the user's row, and no restaurant left out has a strictly higher score
\* than a selected one.
C7_Selection ==
  \A u \in DOMAIN user_profiles :
     (u < user_idx /\ Len(restaurant_profiles) > K) =>
        LET mine == TriplesOf(u)
            chosen == {mine[i].restaurant_id : i \in DOMAIN mine}
            all == {restaurant_profiles[r].id : r \in DOMAIN restaurant_profiles}
        IN  /\ Len(mine) = K
            /\ Cardinality(chosen) = K
            /\ chosen \subseteq all
            /\ \A i \in DOMAIN mine : mine[i].score = ScoreOf(u, mine[i].restaurant_id)
            /\ \A out \in all \ chosen :
                  \A i \in DOMAIN mine : ScoreOf(u, out) <= mine[i].score

\* The loop is over for a row of more than K restaurants in which the
\* restaurant left out ties with a selected one and another selected one
\* scores higher.
C7_Witness ==
  /\ pc = "delete"
  /\ Len(restaurant_profiles) > K
  /\ Len(recommendations) = K
  /\ \E r \in DOMAIN restaurant_profiles :
        /\ \A i \in DOMAIN recommendations :
              recommendations[i].restaurant_id # restaurant_profiles[r].id
        /\ \E i \in DOMAIN recommendations : recommendations[i].score = similarity[1][r]
        /\ \E i \in DOMAIN recommendations : recommendations[i].score > similarity[1][r]

\* ------------------------------------------------------------------------
\* Properties of a whole run (under Spec)
\* ------------------------------------------------------------------------
\* The fetched rows of an entity kind.
FetchedRows(kind) == IF kind = "restaurants" THEN df_restaurants ELSE df_users

\* A fetch has returned no rows for a kind, or the aggregation has produced
\* no profile for a kind.
InputEmpty ==
  \/ \E kind \in fetched : Len(FetchedRows(kind)) = 0
  \/ aggregated /\ (Len(restaurant_profiles) = 0 \/ Len(user_profiles) = 0)

\* C8: from the moment a fetch has returned no rows for a kind, or the
\* aggregation no profile, the run is on its failure path with a
\* ValueError: no later stage runs, neither DELETE nor INSERT is executed,
\* and the store is what it was when the run started.
C8_InputEmptyFatal ==
  InputEmpty =>
     /\ err = "ValueError"
     /\ pc \in {"except", "finally", "flow_except", "exit"}
     /\ executed \cap {"DELETE", "COMMIT_DELETE", "INSERT"} = {}
     /\ db = db0
     /\ tx = db0

\* A run over a non-empty store has ended after the user query returned no
\* rows.
C8_Witness ==
  /\ pc = "exit"
  /\ "users" \in fetched
  /\ Len(df_users) = 0
  /\ Len(df_restaurants) > 0
  /\ db0.recommendation # {}

\* C9: a run in which a stage raised an error ends with a failure its
\* caller sees.
C9_FailureVisible ==
  (pc = "exit" /\ err # "none") => outcome = "failed"

\* ------------------------------------------------------------------------
\* Properties of the aggregator (under SpecAgg)
\* ------------------------------------------------------------------------
\* The profiles built from the rows of an entity kind.
ProfilesOf(kind) ==
  IF kind = "restaurants" THEN restaurant_profiles ELSE user_profiles

\* C10: for each kind, the profiles built from its non-empty rows are one
\* per entity id occurring in the rows and none for any other id, and the
\* text of each is that entity's tag names in row order with the delimiter
\* between consecutive names.
C10_Aggregator ==
  aggregated =>
     \A kind \in {"restaurants", "users"} :
        LET rows == FetchedRows(kind)
            profiles == ProfilesOf(kind)
            delim == Delimiter(program, kind)
            d == Len(delim)
            ids == {rows[i].id : i \in DOMAIN rows}
        IN  /\ Len(profiles) = Cardinality(ids)
            /\ {profiles[i].id : i \in DOMAIN profiles} = ids
            /\ \A i \in DOMAIN profiles :
                  LET mine == SelectSeq(rows, LAMBDA r : r.id = profiles[i].id)
                      n == Len(mine)
                      text == profiles[i].text
                  IN  /\ n > 0
                      /\ Len(text) = n + (n - 1) * d
                      /\ \A j \in 1..n : text[(j - 1) * (d + 1) + 1] = mine[j].tag
                      /\ \A j \in 1..(n - 1) :
                            \A m \in 1..d : text[(j - 1) * (d + 1) + 1 + m] = delim[m]

\* Profiles were built from user rows in which the rows of one entity are
\* interleaved with another's, carry different tags, and come after the
\* rows of an entity with a higher id.
C10_Witness ==
  /\ aggregated
  /\ Len(user_profiles) = 2
  /\ \E i, j, l \in DOMAIN df_users :
        /\ i < j /\ j < l
        /\ df_users[i].id = df_users[l].id
        /\ df_users[i].id # df_users[j].id
        /\ df_users[i].tag # df_users[l].tag
        /\ df_users[i].id > df_users[j].id

\* The position of the first row of entity id in rows.
FirstRow(rows, id) ==
  CHOOSE i \in DOMAIN rows :
     rows[i].id = id /\ \A j \in DOMAIN rows : rows[j].id = id => i <= j

\* C11: for each kind, the profiles are in the order in which their entity
\* ids first appear in the rows: of two profiles, the earlier is the one
\* whose id has the earlier first row.
C11_FirstAppearanceOrder ==
  aggregated =>
     \A kind \in {"restaurants", "users"} :
        LET rows == FetchedRows(kind)
            profiles == ProfilesOf(kind)
        IN  \A i, j \in DOMAIN profiles :
               i < j => FirstRow(rows, profiles[i].id) < FirstRow(rows, profiles[j].id)

\* ------------------------------------------------------------------------
\* Properties of the vectorizer (under Spec)
\* ------------------------------------------------------------------------
\* The terms of the texts of a sequence of profiles.
TermsOf(profiles) ==
  UNION {{w \in Range(profiles[i].text) : w \notin Separators} : i \in DOMAIN profiles}

\* The fitted space is the one of all user and all restaurant texts, and
\* the matrix, once computed, is the cosine of user and restaurant texts
\* transformed through that one space; nothing is transformed before the
\* fit.
SharedSpace ==
  /\ vectorizer = Unfitted => similarity = <<>>
  /\ vectorizer # Unfitted =>
        /\ vectorizer.vocabulary
             = {Lower(w) : w \in (TermsOf(user_profiles) \cup TermsOf(restaurant_profiles))
                                    \ ShortWords}
        /\ DOMAIN vectorizer.idf = vectorizer.vocabulary
        /\ DOMAIN similarity = DOMAIN user_profiles
        /\ \A u \in DOMAIN user_profiles :
              /\ DOMAIN similarity[u] = DOMAIN restaurant_profiles
              /\ \A r \in DOMAIN restaurant_profiles :
                    similarity[u][r]
                      = Cosine(Transform(vectorizer, user_profiles[u].text),
                               Transform(vectorizer, restaurant_profiles[r].text))

\* A step changes the vectorizer only by fitting the unfitted one, with
\* the profiles it is fit on already built and unchanged by the step.
FitOnce ==
  vectorizer' # vectorizer =>
     /\ vectorizer = Unfitted
     /\ pc = "vectorize"
     /\ user_profiles' = user_profiles
     /\ restaurant_profiles' = restaurant_profiles

\* C12: in every run the vectorizer is fit once, on all user and all
\* restaurant texts and before any transform; both kinds are transformed
\* through that fitted space; no step after the fit changes it.
C12_SingleFit == [](SharedSpace) /\ [][FitOnce]_vars

\* A run has fitted the vectorizer on two users and six restaurants where a
\* term of the vocabulary occurs in restaurant texts only and another in
\* both kinds, and has gone on past the top-k loop.
C12_Witness ==
  /\ vectorizer # Unfitted
  /\ pc = "exit"
  /\ Len(user_profiles) = 2
  /\ \E t \in vectorizer.vocabulary :
        t \notin {Lower(w) : w \in TermsOf(user_profiles)}
  /\ \E t \in vectorizer.vocabulary :
        /\ t \in {Lower(w) : w \in TermsOf(user_profiles)}
        /\ t \in {Lower(w) : w \in TermsOf(restaurant_profiles)}

\* ------------------------------------------------------------------------
\* The small catalogue (under Spec)
\* ------------------------------------------------------------------------
\* The restaurant ids, best first, that the selection of the code may give
\* for the user of profile u when it is asked for k restaurants.
Rankings(u, k) ==
  {[i \in DOMAIN order |-> restaurant_profiles[order[i]].id] :
     order \in TopKSorted(similarity[u], k)}

\* C13: on the small catalogue, asked for two restaurants per user, the
\* selection ranks user 1 as restaurants 1, 2 and user 2 as restaurants
\* 2, 3, restaurant 1 scores highest for user 1, and restaurant 3 scores 0
\* for both users.
C13_Scenario ==
  (source = ScenarioSource /\ vectorizer # Unfitted) =>
     /\ Rankings(1, 2) = {<<1, 2>>}
     /\ Rankings(2, 2) = {<<2, 3>>}
     /\ similarity[1][1] > similarity[1][2]
     /\ similarity[1][1] > similarity[1][3]
     /\ similarity[1][3] = 0
     /\ similarity[2][3] = 0

\* ------------------------------------------------------------------------
\* Table names in the staged pipeline (under SpecWrite)
\* ------------------------------------------------------------------------
\* The rows recommendation_view exposes: those of the table it selects
\* from.
ViewRows == IF db.recommendation_view = "none" THEN {} ELSE db[db.recommendation_view]

\* C14: in the staged pipeline the table write_DB writes is the table
\* task_write_DB counts and the view selects from, and after a successful
\* run the view exposes, for the users of the list, exactly the rows the
\* run inserted.
C14_SameTable ==
  (program = "flow" /\ pc = "exit" /\ outcome = "completed") =>
     /\ WriteTable(program) = CountTable
     /\ WriteTable(program) = ViewTable
     /\ \A u \in TouchedUsers(recommendations) :
           RowsOf(ViewRows, u) = RowsOf(InsertedRows(recommendations, nextId0), u)

====
